---- MODULE Spec2Model ----
(***************************************************************************)
(* Model of src/routes/workItems/create.js: the Express handler that adds  *)
(* a work item (PhaseProduct) under a project / work stream / phase.       *)
(*                                                                         *)
(* Every request runs the promise chain of the handler: the store calls    *)
(* inside models.sequelize.transaction are asynchronous, so requests       *)
(* interleave between them; the callback after the transaction (publish,   *)
(* emit, respond) is one synchronous step.                                 *)
(***************************************************************************)
EXTENDS Integers, FiniteSets, Sequences, TLC

\* ------------------------------------------------------------------ bounds
NumRequests == 2
MaxSeedLive == 3

Requests == 1..NumRequests

\* ------------------------------------------------------- program constants
\* config.maxPhaseProductCount
maxPhaseProductCount == 2

\* SQL NULL / JavaScript null (ids are positive, so 0 is free)
NULL == 0

\* err.status of the three kinds of error the chain can reject with; an
\* error thrown by a collaborator carries no status and is modelled as 500.
NotFoundStatus == 404
BadRequestStatus == 400
NoStatus == 500

PROJECT_PHASE_PRODUCT_ADDED == "project.phase.product.added"

\* ----------------------------------------------------------------- lodash
\* _.assign(object, source): own keys of source overwrite those of object.
assign(object, source) ==
  [k \in (DOMAIN object) \cup (DOMAIN source) |->
     IF k \in DOMAIN source THEN source[k] ELSE object[k]]

\* _.omit(object, paths)
omit(object, paths) ==
  [k \in (DOMAIN object) \ paths |-> object[k]]

\* ------------------------------------------------------------- the store
\* Columns of the PhaseProduct table that this handler can set or read.
PhaseProductColumns ==
  {"id", "name", "projectId", "phaseId", "directProjectId",
   "billingAccountId", "createdBy", "updatedBy", "deletedAt", "utm"}

\* Fixed parent rows.  Work stream 20 belongs to project 2 but is also
\* linked to phase 100 of project 1; phase 101 of project 1 has no link to
\* work stream 10.
WorkStreams ==
  { [id |-> 10, projectId |-> 1], [id |-> 20, projectId |-> 2] }

ProjectPhases ==
  { [id |-> 100, projectId |-> 1], [id |-> 101, projectId |-> 1],
    [id |-> 200, projectId |-> 2] }

PhaseWorkStreams ==
  { [phaseId |-> 100, workStreamId |-> 10],
    [phaseId |-> 100, workStreamId |-> 20],
    [phaseId |-> 200, workStreamId |-> 20] }

\* Inputs of a request: the path parameters (projectId, workStreamId,
\* workId) and the body.  The paths are the two valid ones, a work stream of
\* another project that is linked to the phase, a phase of the project that
\* is not linked to the work stream, and a phase of another project that is
\* linked to the work stream.
Paths ==
  { [projectId |-> 1, workStreamId |-> 10, phaseId |-> 100],
    [projectId |-> 2, workStreamId |-> 20, phaseId |-> 200],
    [projectId |-> 1, workStreamId |-> 20, phaseId |-> 100],
    [projectId |-> 1, workStreamId |-> 10, phaseId |-> 101],
    [projectId |-> 2, workStreamId |-> 20, phaseId |-> 100] }

Bodies ==
  { [name |-> "Design"],
    [name |-> "Design", directProjectId |-> 5],
    [name |-> "Design", directProjectId |-> 5, billingAccountId |-> 6] }

VARIABLES
  Project,          \* rows of the Project table
  PhaseProduct,     \* committed rows of the PhaseProduct table
  nextId,           \* the id sequence of the PhaseProduct table
  pc,               \* position of each request in the promise chain
  params,           \* req.params (parsed)
  body,             \* history: req.body.param as the caller sent it
  data,             \* req.body.param, mutated by _.assign
  txn,              \* rows inserted in the request's open transaction
  newPhaseProduct,  \* the handler's local of that name
  err,              \* the rejection travelling down the chain
  published,        \* calls of req.app.services.pubsub.publish
  emitted,          \* calls of req.app.emit
  response,         \* calls of res.status(201).json
  nextErr,          \* calls of next(err)
  productCount,     \* the values PhaseProduct.count resolved with
  created,          \* the row PhaseProduct.create resolved with
  pre,              \* history: the committed PhaseProduct rows when the
                    \* request entered the handler
  calls             \* history: the calls the request has completed, in
                    \* the order it made them

vars == << Project, PhaseProduct, nextId, pc, params, body, data, txn,
           newPhaseProduct, err, published, emitted, response, nextErr,
           productCount, created, pre, calls >>

\* req.id and req.authUser.userId of request r
reqId(r) == 900 + r
userId(r) == 40 + r

\* ---------------------------------------------------- the handler's pieces
\* lines 46-53: default values
defaultValuesNoUpdatedBy(param, projectId, phaseId, user) ==
  assign(param, [projectId |-> projectId, phaseId |-> phaseId,
                createdBy |-> user])

defaultValues(param, projectId, phaseId, user) ==
  assign(param, [projectId |-> projectId, phaseId |-> phaseId,
                createdBy |-> user, updatedBy |-> user])

\* lines 56-67: ProjectPhase.findOne with the WorkStream include; an include
\* with a where clause is an inner join.  The result is the set of joined
\* rows; findOne resolves with null when it is empty.
findPhaseAnyWorkStreamProject(projectId, workStreamId, phaseId) ==
  { j \in ProjectPhases \X WorkStreams :
      /\ j[1].id = phaseId /\ j[1].projectId = projectId
      /\ j[2].id = workStreamId
      /\ [phaseId |-> j[1].id, workStreamId |-> j[2].id] \in PhaseWorkStreams }

findPhase(projectId, workStreamId, phaseId) ==
  { j \in ProjectPhases \X WorkStreams :
      /\ j[1].id = phaseId /\ j[1].projectId = projectId
      /\ j[2].id = workStreamId /\ j[2].projectId = projectId
      /\ [phaseId |-> j[1].id, workStreamId |-> j[2].id] \in PhaseWorkStreams }

\* lines 77-80: Project.findOne({ where: { id, deletedAt: null } })
findProjectAnyDeletedAt(rows, projectId) ==
  { p \in rows : p.id = projectId }

findProject(rows, projectId) ==
  { p \in rows : p.id = projectId /\ p.deletedAt = NULL }

\* lines 90-95: the project's values are assigned over the payload
enrichKeepsCallerValues(d, projectId, phaseId, existingProject) ==
  assign([phaseId |-> phaseId, projectId |-> projectId,
          directProjectId |-> existingProject.directProjectId,
          billingAccountId |-> existingProject.billingAccountId], d)

enrich(d, projectId, phaseId, existingProject) ==
  assign(d, [phaseId |-> phaseId, projectId |-> projectId,
             directProjectId |-> existingProject.directProjectId,
             billingAccountId |-> existingProject.billingAccountId])

\* lines 97-104: PhaseProduct.count({ where: { projectId, phaseId,
\* deletedAt: null } })
countCountsDeleted(rows, projectId, phaseId) ==
  Cardinality({ p \in rows : p.projectId = projectId /\ p.phaseId = phaseId })

count(rows, projectId, phaseId) ==
  Cardinality({ p \in rows : p.projectId = projectId /\ p.phaseId = phaseId
                             /\ p.deletedAt = NULL })

\* line 108
quotaExceededStrict(n) == n > maxPhaseProductCount

quotaExceeded(n) == n >= maxPhaseProductCount

\* line 114: PhaseProduct.create(data): the inserted row, with the generated
\* id, every column the payload does not set NULL.
create(d, id) ==
  [c \in PhaseProductColumns |->
     IF c = "id" THEN id
     ELSE IF c \in DOMAIN d THEN d[c] ELSE NULL]

\* lines 116-120: cloneDeep, get({ plain: true }), omit
sanitizeKeepsUtm(row) == omit(row, {"deletedAt"})

sanitize(row) == omit(row, {"deletedAt", "utm"})

\* lines 56, 122: the managed transaction commits what the callback wrote
\* when the callback's promise resolves.
commitLosesRows(rows, pending) == rows

commit(rows, pending) == rows \cup pending

\* lines 56, 122: the managed transaction rolls back when the callback's
\* promise rejects or the commit fails: what the callback wrote is dropped.
rollbackKeepsRows(rows, pending) == rows \cup pending

rollback(rows, pending) == rows

\* lines 126-129
publishCallNoCorrelation(r, entity) ==
  [routingKey |-> PROJECT_PHASE_PRODUCT_ADDED, payload |-> entity,
   options |-> [correlationId |-> NULL]]

publishCall(r, entity) ==
  [routingKey |-> PROJECT_PHASE_PRODUCT_ADDED, payload |-> entity,
   options |-> [correlationId |-> reqId(r)]]

\* line 131
emitCall(r, entity) ==
  [event |-> PROJECT_PHASE_PRODUCT_ADDED,
   payload |-> [req |-> reqId(r), created |-> entity]]

\* line 133: res.status(201).json(util.wrapResponse(req.id, entity, 1, 201))
wrapResponse(id, content, cnt, status) ==
  [id |-> id,
   result |-> [success |-> TRUE, status |-> status, content |-> content]]

responseCall(r, entity) ==
  [status |-> 201, json |-> wrapResponse(reqId(r), entity, 1, 201)]

\* lines 126, 131, 133: the calls of the callback after the transaction, in
\* the order of the source; the ones completed when thrownBy throws.
sendSequenceRespondFirst == << "respond", "publish", "emit" >>

sendSequence == << "publish", "emit", "respond" >>

completed(thrownBy) ==
  IF thrownBy = "none" THEN sendSequence
  ELSE SubSeq(sendSequence, 1,
              (CHOOSE i \in 1..Len(sendSequence) :
                 sendSequence[i] = thrownBy) - 1)

Has(seq, x) == \E i \in 1..Len(seq) : seq[i] = x

\* line 135: next(err)
callNextSwallows(nexts, e) == nexts

callNext(nexts, e) == Append(nexts, e)

\* An error as the chain carries it: err.status, and the step that threw.
Error(status, step) == [status |-> status, step |-> step]

\* ------------------------------------------------------------------- Init
\* A row of the PhaseProduct table that exists before any request.
SeedRow(id, projectId, phaseId, deletedAt) ==
  [id |-> id, name |-> "Seed", projectId |-> projectId, phaseId |-> phaseId,
   directProjectId |-> NULL, billingAccountId |-> NULL,
   createdBy |-> 40, updatedBy |-> 40, deletedAt |-> deletedAt, utm |-> 77]

\* One soft-deleted row of (1, 100), one live row of (2, 200) and n live
\* rows of (1, 100).
SeedRows(n) ==
  { SeedRow(1, 1, 100, 1), SeedRow(2, 2, 200, NULL) }
    \cup { SeedRow(2 + i, 1, 100, NULL) : i \in 1..n }

None == << >>

Init ==
  /\ \E del \in {NULL, 1} :
       Project =
         { [id |-> 1, directProjectId |-> 7, billingAccountId |-> 8,
            deletedAt |-> del],
           [id |-> 2, directProjectId |-> 9, billingAccountId |-> NULL,
            deletedAt |-> NULL] }
  /\ \E n \in 0..MaxSeedLive :
       /\ PhaseProduct = SeedRows(n)
       /\ nextId = 3 + n
  /\ pc = [r \in Requests |-> "idle"]
  /\ params = [r \in Requests |-> None]
  /\ body = [r \in Requests |-> None]
  /\ data = [r \in Requests |-> None]
  /\ txn = [r \in Requests |-> {}]
  /\ newPhaseProduct = [r \in Requests |-> None]
  /\ err = [r \in Requests |-> None]
  /\ published = [r \in Requests |-> << >>]
  /\ emitted = [r \in Requests |-> << >>]
  /\ response = [r \in Requests |-> << >>]
  /\ nextErr = [r \in Requests |-> << >>]
  /\ productCount = [r \in Requests |-> << >>]
  /\ created = [r \in Requests |-> None]
  /\ pre = [r \in Requests |-> {}]
  /\ calls = [r \in Requests |-> << >>]

\* ---------------------------------------------------------------- actions
\* A rejection inside the transaction callback: the chain skips to the
\* rollback of the managed transaction.
Reject(r, e) ==
  /\ err' = [err EXCEPT ![r] = e]
  /\ pc' = [pc EXCEPT ![r] = "rollback"]

\* lines 41-56: the handler is entered, the payload gets its default
\* values, the transaction is opened and ProjectPhase.findOne is issued.
Handle(r) ==
  /\ pc[r] = "idle"
  /\ \E path \in Paths, param \in Bodies :
       /\ params' = [params EXCEPT ![r] = path]
       /\ body' = [body EXCEPT ![r] = param]
       /\ data' = [data EXCEPT ![r] =
            defaultValues(param, path.projectId, path.phaseId, userId(r))]
  /\ pre' = [pre EXCEPT ![r] = PhaseProduct]
  /\ pc' = [pc EXCEPT ![r] = "findPhase"]
  /\ UNCHANGED << Project, PhaseProduct, nextId, txn, newPhaseProduct, err,
                  published, emitted, response, nextErr, productCount,
                  created, calls >>

\* lines 56-81: ProjectPhase.findOne settles; the first then-callback runs
\* and issues Project.findOne.
FindPhase(r) ==
  /\ pc[r] = "findPhase"
  /\ \E resolved \in BOOLEAN :
       IF ~resolved
         THEN Reject(r, Error(NoStatus, "findPhase"))
         ELSE IF findPhase(params[r].projectId, params[r].workStreamId,
                           params[r].phaseId) = {}
                THEN Reject(r, Error(NotFoundStatus, "findPhase"))
                ELSE /\ pc' = [pc EXCEPT ![r] = "findProject"]
                     /\ err' = err
  /\ calls' = [calls EXCEPT ![r] = Append(@, "findPhase")]
  /\ UNCHANGED << Project, PhaseProduct, nextId, params, body, data, txn,
                  newPhaseProduct, published, emitted, response, nextErr,
                  productCount, created, pre >>

\* lines 77-105: Project.findOne settles; the second then-callback runs,
\* enriches the payload and issues PhaseProduct.count.
FindProject(r) ==
  /\ pc[r] = "findProject"
  /\ \E resolved \in BOOLEAN :
       IF ~resolved
         THEN /\ Reject(r, Error(NoStatus, "findProject"))
              /\ data' = data
              /\ calls' = [calls EXCEPT ![r] = Append(@, "findProject")]
         ELSE LET found == findProject(Project, params[r].projectId) IN
              IF found = {}
                THEN /\ Reject(r, Error(NotFoundStatus, "findProject"))
                     /\ data' = data
                     /\ calls' = [calls EXCEPT ![r] =
                          Append(@, "findProject")]
                ELSE \E existingProject \in found :
                       /\ data' = [data EXCEPT ![r] =
                            enrich(data[r], params[r].projectId,
                                   params[r].phaseId, existingProject)]
                       /\ pc' = [pc EXCEPT ![r] = "count"]
                       /\ err' = err
                       /\ calls' = [calls EXCEPT ![r] =
                            @ \o << "findProject", "enrich" >>]
  /\ UNCHANGED << Project, PhaseProduct, nextId, params, body, txn,
                  newPhaseProduct, published, emitted, response, nextErr,
                  productCount, created, pre >>

\* lines 97-114: PhaseProduct.count settles (it sees committed rows); the
\* third then-callback checks the quota and issues PhaseProduct.create.
Count(r) ==
  /\ pc[r] = "count"
  /\ \E resolved \in BOOLEAN :
       IF ~resolved
         THEN Reject(r, Error(NoStatus, "count"))
              /\ productCount' = productCount
         ELSE LET n == count(PhaseProduct, params[r].projectId,
                             params[r].phaseId) IN
              /\ productCount' = [productCount EXCEPT ![r] = << n >>]
              /\ IF quotaExceeded(n)
                   THEN Reject(r, Error(BadRequestStatus, "count"))
                   ELSE /\ pc' = [pc EXCEPT ![r] = "create"]
                        /\ err' = err
  /\ calls' = [calls EXCEPT ![r] = Append(@, "count")]
  /\ UNCHANGED << Project, PhaseProduct, nextId, params, body, data, txn,
                  newPhaseProduct, published, emitted, response, nextErr,
                  created, pre >>

\* lines 114-121: PhaseProduct.create settles; the inserted row is pending
\* in the request's transaction and the sanitized copy is kept.
Create(r) ==
  /\ pc[r] = "create"
  /\ \E resolved \in BOOLEAN :
       IF ~resolved
         THEN /\ Reject(r, Error(NoStatus, "create"))
              /\ UNCHANGED << nextId, txn, created, newPhaseProduct >>
         ELSE LET row == create(data[r], nextId) IN
              /\ nextId' = nextId + 1
              /\ txn' = [txn EXCEPT ![r] = {row}]
              /\ created' = [created EXCEPT ![r] = row]
              /\ newPhaseProduct' = [newPhaseProduct EXCEPT ![r] =
                   sanitize(row)]
              /\ pc' = [pc EXCEPT ![r] = "commit"]
              /\ err' = err
  /\ calls' = [calls EXCEPT ![r] = Append(@, "create")]
  /\ UNCHANGED << Project, PhaseProduct, params, body, data, published, emitted,
                  response, nextErr, productCount, pre >>

\* lines 56, 122: the callback's promise resolved: the managed transaction
\* commits; a failed commit rejects the chain with nothing persisted.
Commit(r) ==
  /\ pc[r] = "commit"
  /\ \E resolved \in BOOLEAN :
       IF ~resolved
         THEN /\ err' = [err EXCEPT ![r] = Error(NoStatus, "commit")]
              /\ pc' = [pc EXCEPT ![r] = "catch"]
              /\ PhaseProduct' = rollback(PhaseProduct, txn[r])
              /\ calls' = [calls EXCEPT ![r] = Append(@, "rollback")]
         ELSE /\ PhaseProduct' = commit(PhaseProduct, txn[r])
              /\ pc' = [pc EXCEPT ![r] = "sendEvents"]
              /\ err' = err
              /\ calls' = [calls EXCEPT ![r] = Append(@, "commit")]
  /\ txn' = [txn EXCEPT ![r] = {}]
  /\ UNCHANGED << Project, nextId, params, body, data, newPhaseProduct, published,
                  emitted, response, nextErr, productCount, created, pre >>

\* lines 56, 122: the callback's promise rejected: the managed transaction
\* rolls back and the rejection goes on to the catch.
Rollback(r) ==
  /\ pc[r] = "rollback"
  /\ PhaseProduct' = rollback(PhaseProduct, txn[r])
  /\ txn' = [txn EXCEPT ![r] = {}]
  /\ pc' = [pc EXCEPT ![r] = "catch"]
  /\ calls' = [calls EXCEPT ![r] = Append(@, "rollback")]
  /\ UNCHANGED << Project, nextId, params, body, data,
                  newPhaseProduct, err, published, emitted, response,
                  nextErr, productCount, created, pre >>

\* lines 123-134: one synchronous callback: publish, emit, respond.  Each of
\* the three calls may throw; a throw skips the rest and rejects the chain.
SendEvents(r) ==
  /\ pc[r] = "sendEvents"
  /\ \E thrownBy \in {"none", "publish", "emit", "respond"} :
       /\ calls' = [calls EXCEPT ![r] = @ \o completed(thrownBy)]
       /\ published' = [published EXCEPT ![r] =
            IF Has(completed(thrownBy), "publish")
              THEN Append(@, publishCall(r, newPhaseProduct[r]))
              ELSE @]
       /\ emitted' = [emitted EXCEPT ![r] =
            IF Has(completed(thrownBy), "emit")
              THEN Append(@, emitCall(r, newPhaseProduct[r]))
              ELSE @]
       /\ response' = [response EXCEPT ![r] =
            IF Has(completed(thrownBy), "respond")
              THEN Append(@, responseCall(r, newPhaseProduct[r]))
              ELSE @]
       /\ IF thrownBy = "none"
            THEN /\ pc' = [pc EXCEPT ![r] = "done"]
                 /\ err' = err
            ELSE /\ pc' = [pc EXCEPT ![r] = "catch"]
                 /\ err' = [err EXCEPT ![r] = Error(NoStatus, thrownBy)]
  /\ UNCHANGED << Project, PhaseProduct, nextId, params, body, data, txn,
                  newPhaseProduct, nextErr, productCount, created, pre >>

\* line 135: .catch((err) => { next(err); })
Catch(r) ==
  /\ pc[r] = "catch"
  /\ nextErr' = [nextErr EXCEPT ![r] = callNext(@, err[r])]
  /\ calls' = [calls EXCEPT ![r] = Append(@, "next")]
  /\ pc' = [pc EXCEPT ![r] = "done"]
  /\ UNCHANGED << Project, PhaseProduct, nextId, params, body, data, txn,
                  newPhaseProduct, err, published, emitted, response,
                  productCount, created, pre >>

Step(r) ==
  \/ FindPhase(r)
  \/ FindProject(r)
  \/ Count(r)
  \/ Create(r)
  \/ Commit(r)
  \/ Rollback(r)
  \/ SendEvents(r)
  \/ Catch(r)

\* Requests run concurrently: any request may take its next step.
Next == \E r \in Requests : Handle(r) \/ Step(r)

Spec == Init /\ [][Next]_vars

\* Requests run one after the other: a request enters the handler only when
\* no other request is in flight.
HandleSerially(r) ==
  /\ \A q \in Requests \ {r} : pc[q] \in {"idle", "done"}
  /\ Handle(r)

NextSerial == \E r \in Requests : HandleSerially(r) \/ Step(r)

SpecSerial == Init /\ [][NextSerial]_vars

TypeOK ==
  /\ pc \in [Requests -> {"idle", "findPhase", "findProject", "count",
                          "create", "commit", "rollback", "sendEvents",
                          "catch", "done"}]
  /\ nextId \in Nat

\* ------------------------------------------------- vocabulary of the claims
\* The Phase (id, projectId) is linked to the WorkStream (id, projectId).
Linked(projectId, workStreamId, phaseId) ==
  /\ [id |-> phaseId, projectId |-> projectId] \in ProjectPhases
  /\ [id |-> workStreamId, projectId |-> projectId] \in WorkStreams
  /\ [phaseId |-> phaseId, workStreamId |-> workStreamId] \in PhaseWorkStreams

LinkedFor(r) ==
  Linked(params[r].projectId, params[r].workStreamId, params[r].phaseId)

\* The Project row of the request, and whether it is soft-deleted.
ProjectOf(r) == CHOOSE p \in Project : p.id = params[r].projectId

ProjectLiveFor(r) == ProjectOf(r).deletedAt = NULL

\* Non-soft-deleted rows of the request's (projectId, phaseId) among rows.
LiveFor(r, rows) ==
  { p \in rows : /\ p.projectId = params[r].projectId
                 /\ p.phaseId = params[r].phaseId
                 /\ p.deletedAt = NULL }

\* Every request of the model has its own acting user, so createdBy tells
\* which request inserted a row: the rows of request r that are persisted.
RowsOf(r) ==
  { p \in PhaseProduct \ pre[r] : p.createdBy = userId(r) }

Ended(r) == pc[r] = "done"

\* The two outcomes of a request.
Responded201(r) == Len(response[r]) = 1 /\ response[r][1].status = 201

FailedWith(r, status) == Len(nextErr[r]) = 1 /\ nextErr[r][1].status = status

Failed(r) == nextErr[r] # << >>

\* A store call, the publish, the emit or the response assembly threw.
CollaboratorFailed(r) == Failed(r) /\ nextErr[r][1].status = NoStatus

\* ---------------------------------------------------------------------- C1
\* C1 (SpecSerial: requests run one after the other).  For a request with a
\* valid linkage and a live project whose collaborators do not fail: if the
\* live count of its (projectId, phaseId) before the request is at least
\* maxPhaseProductCount, it ends with a 400 error, no 201 response and no
\* row inserted; if the live count is maxPhaseProductCount - 1 (soft-deleted
\* rows not counted), it ends with a 201 response, one row of its own
\* persisted, and at the step that sends the 201 the live count is exactly
\* maxPhaseProductCount.
C1QuotaOutcome ==
  \A r \in Requests :
    (Ended(r) /\ LinkedFor(r) /\ ProjectLiveFor(r) /\ ~CollaboratorFailed(r))
    => LET n == Cardinality(LiveFor(r, pre[r])) IN
       /\ n >= maxPhaseProductCount
            => /\ FailedWith(r, 400)
               /\ response[r] = << >>
               /\ RowsOf(r) = {}
               /\ created[r] = None
       /\ n = maxPhaseProductCount - 1
            => /\ Responded201(r)
               /\ ~Failed(r)
               /\ Cardinality(RowsOf(r)) = 1
               /\ Cardinality(LiveFor(r, pre[r] \cup RowsOf(r)))
                    = maxPhaseProductCount

C1CountBecomesMax ==
  \A r \in Requests :
    (/\ response[r] = << >> /\ response'[r] # << >>
     /\ Cardinality(LiveFor(r, pre[r])) = maxPhaseProductCount - 1)
    => Cardinality(LiveFor(r, PhaseProduct')) = maxPhaseProductCount

C1_QuotaEnforcedSerially == []C1QuotaOutcome /\ [][C1CountBecomesMax]_vars

\* One request was refused at the quota and another succeeded from
\* maxPhaseProductCount - 1 live rows, next to a soft-deleted row.
C1_Witness ==
  \E r, q \in Requests :
    /\ Ended(r) /\ FailedWith(r, 400)
    /\ Cardinality(LiveFor(r, pre[r])) >= maxPhaseProductCount
    /\ Ended(q) /\ Responded201(q)
    /\ Cardinality(LiveFor(q, pre[q])) = maxPhaseProductCount - 1
    /\ \E p \in pre[q] : /\ p.projectId = params[q].projectId
                          /\ p.phaseId = params[q].phaseId
                          /\ p.deletedAt # NULL

\* ---------------------------------------------------------------------- C2
\* C2.  A request whose (projectId, workStreamId, phaseId) has no Phase of
\* the project linked to a WorkStream of the project never inserts a row,
\* never publishes, never emits and never sends a 201; when it has ended it
\* has handed an error to next, with status 404 unless the linkage lookup
\* itself failed in the store.
C2_LinkageIntegrity ==
  \A r \in Requests :
    (pc[r] # "idle" /\ ~LinkedFor(r))
    => /\ RowsOf(r) = {} /\ txn[r] = {} /\ created[r] = None
       /\ published[r] = << >> /\ emitted[r] = << >>
       /\ response[r] = << >>
       /\ Ended(r) => Failed(r) /\ Len(nextErr[r]) = 1
       /\ (Ended(r) /\ ~CollaboratorFailed(r)) => FailedWith(r, 404)

\* A request for a work stream of another project, linked to the phase,
\* ended with 404.
C2_Witness ==
  \E r \in Requests :
    /\ Ended(r) /\ FailedWith(r, 404)
    /\ params[r] = [projectId |-> 1, workStreamId |-> 20, phaseId |-> 100]

\* ---------------------------------------------------------------------- C3
\* C3.  No partial success: a request that ended with an error handed to
\* next has no row of its own persisted, and a request with a persisted row
\* has invoked both the publish and the emit.
C3_NoPartialSuccess ==
  \A r \in Requests :
    /\ (Ended(r) /\ Failed(r)) => RowsOf(r) = {}
    /\ (Ended(r) /\ RowsOf(r) # {})
         => published[r] # << >> /\ emitted[r] # << >>

\* ---------------------------------------------------------------------- C4
\* C4.  There is no lock between count and insert: every request that has
\* inserted a row read a live count below maxPhaseProductCount, whatever
\* other requests committed in between, so requests that overlap can all
\* pass the check; the witness is the interleaving in which two of them do
\* and the live count of the pair exceeds maxPhaseProductCount.
C4_InsertsOnlyPassTheirOwnCheck ==
  \A r \in Requests :
    (created[r] # None \/ txn[r] # {} \/ RowsOf(r) # {})
    => /\ Len(productCount[r]) = 1
       /\ productCount[r][1] < maxPhaseProductCount
       /\ productCount[r][1] >= Cardinality(LiveFor(r, pre[r]))

\* Two requests for one (projectId, phaseId) that started at or below the
\* maximum both read a count below it and both inserted: the pair now has
\* more live rows than maxPhaseProductCount.
C4_Witness ==
  \E r, q \in Requests :
    /\ r # q
    /\ params[r] # None /\ params[q] # None
    /\ params[r].projectId = params[q].projectId
    /\ params[r].phaseId = params[q].phaseId
    /\ Cardinality(LiveFor(r, pre[r])) <= maxPhaseProductCount
    /\ Cardinality(LiveFor(q, pre[q])) <= maxPhaseProductCount
    /\ Len(productCount[r]) = 1 /\ Len(productCount[q]) = 1
    /\ productCount[r][1] < maxPhaseProductCount
    /\ productCount[q][1] < maxPhaseProductCount
    /\ RowsOf(r) # {} /\ RowsOf(q) # {}
    /\ Cardinality(LiveFor(r, PhaseProduct)) > maxPhaseProductCount

\* ---------------------------------------------------------------------- C5
\* What _.omit leaves of a row, stated on its own.
WithoutInternalFields(row) ==
  [k \in (DOMAIN row) \ {"deletedAt", "utm"} |-> row[k]]

\* C5.  Dual publish: a request that sent the 201 has invoked the
\* durable-bus publish exactly once and the in-process emit exactly once,
\* both under PROJECT_PHASE_PRODUCT_ADDED, both with the entity that the
\* response carries, which is the sanitized copy of the row it persisted;
\* the publish carries the request's id as correlationId.
C5_DualPublish ==
  \A r \in Requests :
    Responded201(r)
    => /\ Len(published[r]) = 1 /\ Len(emitted[r]) = 1
       /\ published[r][1].routingKey = "project.phase.product.added"
       /\ emitted[r][1].event = "project.phase.product.added"
       /\ published[r][1].payload = response[r][1].json.result.content
       /\ emitted[r][1].payload.created = response[r][1].json.result.content
       /\ \E row \in RowsOf(r) :
            response[r][1].json.result.content = WithoutInternalFields(row)
       /\ published[r][1].options.correlationId = 900 + r
       /\ response[r][1].json.id = 900 + r

C5_Witness ==
  \E r \in Requests :
    /\ Ended(r) /\ Responded201(r)
    /\ Len(published[r]) = 1 /\ Len(emitted[r]) = 1

\* ---------------------------------------------------------------------- C6
TransactionSteps == {"findPhase", "findProject", "count", "create", "commit"}

\* C6.  A request that failed in the linkage lookup, the project lookup, the
\* quota check, the insert or the commit (a store failure included) has no
\* row of its own persisted and none pending once the chain reaches the
\* catch, removed no row that existed before it, made no publish, no emit
\* and no 201 response, and hands exactly that error to next: 404 for a
\* missing linkage or project, 400 for a reached quota, no status for a
\* store failure.
C6_FailureLeavesNoTrace ==
  \A r \in Requests :
    (err[r] # None /\ err[r].step \in TransactionSteps)
    => /\ RowsOf(r) = {}
       /\ pre[r] \subseteq PhaseProduct
       /\ pc[r] \in {"catch", "done"} => txn[r] = {}
       /\ published[r] = << >> /\ emitted[r] = << >>
       /\ response[r] = << >>
       /\ Ended(r) => nextErr[r] = << err[r] >>
       /\ pc[r] \in {"rollback", "catch", "done"}
       /\ err[r].status \in {404, 400, 500}
       /\ err[r].status = 404 =>
            /\ err[r].step \in {"findPhase", "findProject"}
            /\ err[r].step = "findPhase" => ~LinkedFor(r)
            /\ err[r].step = "findProject"
                 => LinkedFor(r) /\ ~ProjectLiveFor(r)
       /\ err[r].status = 400 =>
            /\ err[r].step = "count"
            /\ LinkedFor(r) /\ ProjectLiveFor(r)
            /\ Len(productCount[r]) = 1
            /\ productCount[r][1] >= maxPhaseProductCount
       /\ err[r].status # 500 =>
            IF ~LinkedFor(r) \/ ~ProjectLiveFor(r)
              THEN err[r].status = 404
              ELSE err[r].status = 400

\* A request whose commit failed after its insert, one refused at the
\* quota, or one with a missing project has ended with its error.
C6_Witness ==
  \E r, q \in Requests :
    /\ Ended(r) /\ Failed(r) /\ nextErr[r][1].step = "commit"
    /\ created[r] # None /\ created[r] \notin PhaseProduct
    /\ Ended(q) /\ Failed(q) /\ nextErr[q][1].step \in {"findProject", "count"}
    /\ nextErr[q][1].status \in {404, 400}

\* ---------------------------------------------------------------------- C7
\* C7.  Soft-delete exclusion: a request for a soft-deleted project with a
\* valid linkage never inserts, publishes, emits or sends a 201, whatever the
\* live count; when it has ended it has handed an error to next, with
\* status 404 unless a lookup itself failed in the store.
C7_SoftDeletedProject ==
  \A r \in Requests :
    (pc[r] # "idle" /\ LinkedFor(r) /\ ~ProjectLiveFor(r))
    => /\ RowsOf(r) = {} /\ txn[r] = {} /\ created[r] = None
       /\ published[r] = << >> /\ emitted[r] = << >>
       /\ response[r] = << >>
       /\ Ended(r) => Failed(r) /\ Len(nextErr[r]) = 1
       /\ (Ended(r) /\ ~CollaboratorFailed(r)) => FailedWith(r, 404)

\* Valid linkage, quota not reached, project soft-deleted: ended with 404.
C7_Witness ==
  \E r \in Requests :
    /\ Ended(r) /\ FailedWith(r, 404)
    /\ LinkedFor(r) /\ ~ProjectLiveFor(r)
    /\ Cardinality(LiveFor(r, PhaseProduct)) < maxPhaseProductCount

\* ---------------------------------------------------------------------- C8
\* C8.  Authoritative enrichment: every row a request persisted has the
\* directProjectId and billingAccountId of the request's Project row and the
\* projectId and phaseId of the path, whatever the body supplied for them.
C8_AuthoritativeEnrichment ==
  \A r \in Requests :
    /\ \A row \in RowsOf(r) \cup txn[r] :
         /\ row.directProjectId = ProjectOf(r).directProjectId
         /\ row.billingAccountId = ProjectOf(r).billingAccountId
         /\ row.projectId = params[r].projectId
         /\ row.phaseId = params[r].phaseId
    /\ Responded201(r) => Cardinality(RowsOf(r)) = 1

\* A successful request whose body supplied both fields, with values other
\* than the project's, next to one whose body supplied neither.
C8_Witness ==
  \E r, q \in Requests :
    /\ Ended(r) /\ Responded201(r)
    /\ "directProjectId" \in DOMAIN body[r]
    /\ "billingAccountId" \in DOMAIN body[r]
    /\ body[r].directProjectId # ProjectOf(r).directProjectId
    /\ body[r].billingAccountId # ProjectOf(r).billingAccountId
    /\ Ended(q) /\ Responded201(q)
    /\ "directProjectId" \notin DOMAIN body[q]
    /\ "billingAccountId" \notin DOMAIN body[q]

\* ---------------------------------------------------------------------- C9
\* The entities a request has passed to the response, the publish and the
\* emit.
EntitiesSent(r) ==
  { published[r][i].payload : i \in 1..Len(published[r]) }
    \cup { emitted[r][i].payload.created : i \in 1..Len(emitted[r]) }
    \cup { response[r][i].json.result.content : i \in 1..Len(response[r]) }

\* C9.  Sanitization: every entity passed to the 201 response, the publish
\* or the emit has neither deletedAt nor utm, while the row the request
\* persisted has both, and the entity has every other field of that row
\* with the row's value.
C9_Sanitization ==
  \A r \in Requests :
    \A e \in EntitiesSent(r) :
      /\ "deletedAt" \notin DOMAIN e
      /\ "utm" \notin DOMAIN e
      /\ \E row \in RowsOf(r) :
           /\ {"deletedAt", "utm"} \subseteq DOMAIN row
           /\ DOMAIN e = (DOMAIN row) \ {"deletedAt", "utm"}
           /\ \A k \in DOMAIN e : e[k] = row[k]

C9_Witness ==
  \E r \in Requests :
    /\ Ended(r) /\ Responded201(r)
    /\ Cardinality(EntitiesSent(r)) = 1
    /\ \E row \in RowsOf(r) : {"deletedAt", "utm"} \subseteq DOMAIN row

\* --------------------------------------------------------------------- C10
\* C10.  A request whose publish or emit threw after the commit keeps its
\* inserted row persisted, up to and after the error is handed to next.
C10_PublishFailureKeepsInsert ==
  \A r \in Requests :
    (err[r] # None /\ err[r].step \in {"publish", "emit"})
    => /\ created[r] \in PhaseProduct
       /\ RowsOf(r) = {created[r]}
       /\ created[r].deletedAt = NULL

\* One request ended with the publish's error, another with the emit's,
\* both rows persisted.
C10_Witness ==
  \E r, q \in Requests :
    /\ Ended(r) /\ Failed(r) /\ nextErr[r][1].step = "publish"
    /\ Ended(q) /\ Failed(q) /\ nextErr[q][1].step = "emit"
    /\ RowsOf(r) # {} /\ RowsOf(q) # {}

\* ---------------------------------------------------- further specifications
\* The request is between its quota count and the end of its transaction.
InCountToCommit(q) == pc[q] \in {"create", "commit"}

SamePair(r, q) ==
  /\ params[r].projectId = params[q].projectId
  /\ params[r].phaseId = params[q].phaseId

\* Requests run concurrently, but a request counts only while no other
\* request for its (projectId, phaseId) is between count and commit.
CountIsolated(r) ==
  /\ pc[r] = "count"
  /\ \A q \in Requests \ {r} : InCountToCommit(q) => ~SamePair(r, q)
  /\ Count(r)

NextIsolated ==
  \E r \in Requests :
    \/ Handle(r)
    \/ FindPhase(r)
    \/ FindProject(r)
    \/ CountIsolated(r)
    \/ Create(r)
    \/ Commit(r)
    \/ Rollback(r)
    \/ SendEvents(r)
    \/ Catch(r)

SpecIsolated == Init /\ [][NextIsolated]_vars

\* Every store call settles and the event loop runs every callback that is
\* due: a request that entered the handler keeps taking steps.  Whether a
\* request arrives at all is left open.
SpecFair == Init /\ [][Next]_vars /\ \A r \in Requests : WF_vars(Step(r))

\* --------------------------------------------------------------------- C11
\* C11.  Every row a request committed gets exactly one durable-bus publish
\* and exactly one in-process emit: a request that has ended with its row
\* persisted has made one publish and one emit with that row's sanitized
\* copy (nothing runs for the request after it has ended).
C11_EveryCreatedItemGetsBothEvents ==
  \A r \in Requests :
    (Ended(r) /\ RowsOf(r) # {})
    => /\ Len(published[r]) = 1 /\ Len(emitted[r]) = 1
       /\ \A row \in RowsOf(r) :
            /\ published[r][1].payload = WithoutInternalFields(row)
            /\ emitted[r][1].payload.created = WithoutInternalFields(row)

\* --------------------------------------------------------------------- C12
SideEffects == {"publish", "emit", "respond"}

\* How often the request has completed the call x.
Times(r, x) == Cardinality({ i \in 1..Len(calls[r]) : calls[r][i] = x })

\* Every x among the request's calls has a y before it.
Preceded(r, x, y) ==
  \A i \in 1..Len(calls[r]) :
    calls[r][i] = x => \E j \in 1..(i - 1) : calls[r][j] = y

\* C12.  Within a request the publish, the emit and the 201 response come
\* only after the commit of the transaction that inserted the row, the emit
\* only after the publish and the response only after the emit; a request
\* whose transaction was rolled back makes none of the three, and every
\* entity published, emitted or sent is that of a persisted row of the
\* request.
C12_OrderOfSideEffects ==
  \A r \in Requests :
    /\ Times(r, "publish") = Len(published[r])
    /\ Times(r, "emit") = Len(emitted[r])
    /\ Times(r, "respond") = Len(response[r])
    /\ \A x \in SideEffects : Preceded(r, x, "commit")
    /\ Preceded(r, "commit", "create")
    /\ Preceded(r, "emit", "publish")
    /\ Preceded(r, "respond", "emit")
    /\ Has(calls[r], "rollback")
         => /\ \A x \in SideEffects : Times(r, x) = 0
            /\ RowsOf(r) = {}
    /\ \A e \in EntitiesSent(r) : \E row \in RowsOf(r) : row.id = e.id

\* One request went through commit, publish, emit and response in that
\* order; another inserted a row and was rolled back without side effects.
C12_Witness ==
  \E r, q \in Requests :
    /\ Ended(r) /\ Len(calls[r]) >= 4
    /\ SubSeq(calls[r], Len(calls[r]) - 3, Len(calls[r]))
         = << "commit", "publish", "emit", "respond" >>
    /\ Ended(q) /\ created[q] # None /\ Has(calls[q], "rollback")
    /\ published[q] = << >> /\ emitted[q] = << >> /\ response[q] = << >>

\* --------------------------------------------------------------------- C13
ChainOrder == << "findPhase", "findProject", "enrich", "count", "create" >>

IsChainStep(x) == Has(ChainOrder, x)

\* C13.  The steps run in the order linkage lookup, project lookup,
\* enrichment, quota count, insert, each at most once and none after a
\* failed one.  The first failing check decides: without the linkage, or
\* with the linkage and a soft-deleted project, the request never counts,
\* never inserts and (its lookups resolving) ends with 404, whatever the
\* live count; a 400 is only given after both lookups succeeded.
C13_PrecedenceOfChecks ==
  \A r \in Requests :
    LET steps == SelectSeq(calls[r], IsChainStep) IN
    /\ Len(steps) <= Len(ChainOrder)
    /\ \A i \in 1..Len(steps) : steps[i] = ChainOrder[i]
    /\ (err[r] # None /\ err[r].step \in {"findPhase", "findProject"})
         => Times(r, "count") = 0 /\ Times(r, "create") = 0
    /\ (err[r] # None /\ err[r].step = "findPhase")
         => Times(r, "findProject") = 0
    /\ (pc[r] # "idle" /\ ~(LinkedFor(r) /\ ProjectLiveFor(r)))
         => /\ Times(r, "enrich") = 0
            /\ Times(r, "count") = 0 /\ Times(r, "create") = 0
            /\ productCount[r] = << >>
            /\ (Ended(r) /\ ~CollaboratorFailed(r)) => FailedWith(r, 404)
    /\ (pc[r] # "idle" /\ ~LinkedFor(r)) => Times(r, "findProject") = 0
    /\ (err[r] # None /\ err[r].status = 400)
         => /\ LinkedFor(r) /\ ProjectLiveFor(r)
            /\ steps = SubSeq(ChainOrder, 1, 4)

\* With the quota of (1, 100) reached: a request without the linkage and a
\* request with the linkage but a soft-deleted project both ended with 404.
C13_Witness ==
  \E r, q \in Requests :
    /\ Ended(r) /\ FailedWith(r, 404) /\ ~LinkedFor(r)
    /\ Cardinality(LiveFor(r, PhaseProduct)) >= maxPhaseProductCount
    /\ Ended(q) /\ FailedWith(q, 404) /\ LinkedFor(q) /\ ~ProjectLiveFor(q)
    /\ Cardinality(LiveFor(q, PhaseProduct)) >= maxPhaseProductCount

\* --------------------------------------------------------------------- C14
\* The (projectId, phaseId) pairs of the model's rows and requests.
Pairs == { << p.projectId, p.phaseId >> : p \in Paths }

LiveCount(rows, pair) ==
  Cardinality({ p \in rows : /\ p.projectId = pair[1] /\ p.phaseId = pair[2]
                             /\ p.deletedAt = NULL })

\* The request's transaction commits in this step.
Commits(r) == pc[r] = "commit" /\ pc'[r] = "sendEvents"

\* A request that sent the 201 has exactly one persisted row, of its path's
\* project and phase, created and updated by its acting user.
C14OneRowPerSuccess ==
  \A r \in Requests :
    Responded201(r)
    => /\ Cardinality(RowsOf(r)) = 1
       /\ created[r] \in PhaseProduct
       /\ \A row \in RowsOf(r) :
            /\ row = created[r]
            /\ row.projectId = params[r].projectId
            /\ row.phaseId = params[r].phaseId
            /\ row.createdBy = 40 + r
            /\ row.updatedBy = 40 + r

\* The PhaseProduct table changes only when a request's transaction
\* commits, and then by exactly one new live row of the request's pair: the
\* live count of that pair grows by 1, every other pair keeps its rows, and
\* no step changes a Project row (Phase and WorkStream rows are fixed).
C14OnlyTheNewRow ==
  /\ Project' = Project
  /\ \A r \in Requests :
       Commits(r)
       => \E row \in PhaseProduct' \ PhaseProduct :
            /\ PhaseProduct' = PhaseProduct \cup {row}
            /\ row.projectId = params[r].projectId
            /\ row.phaseId = params[r].phaseId
            /\ row.createdBy = 40 + r /\ row.updatedBy = 40 + r
            /\ \A pair \in Pairs :
                 LiveCount(PhaseProduct', pair) =
                   LiveCount(PhaseProduct, pair)
                     + (IF pair = << params[r].projectId, params[r].phaseId >>
                          THEN 1 ELSE 0)
  /\ PhaseProduct' # PhaseProduct => \E r \in Requests : Commits(r)

\* C14.  Exactly one row per success, and nothing else changes.
C14_ExactlyOneRowPerSuccess ==
  []C14OneRowPerSuccess /\ [][C14OnlyTheNewRow]_vars

\* Two requests for different pairs both succeeded, each with its one row.
C14_Witness ==
  \E r, q \in Requests :
    /\ Ended(r) /\ Responded201(r) /\ Cardinality(RowsOf(r)) = 1
    /\ Ended(q) /\ Responded201(q) /\ Cardinality(RowsOf(q)) = 1
    /\ params[r].projectId # params[q].projectId

\* --------------------------------------------------------------------- C15
\* The rows that existed before any request.
InitialRows == { p \in PhaseProduct : p.name = "Seed" }

\* A pair that starts with at most maxPhaseProductCount live rows never has
\* more.
C15WithinQuota ==
  \A pair \in Pairs :
    LiveCount(InitialRows, pair) <= maxPhaseProductCount
    => LiveCount(PhaseProduct, pair) <= maxPhaseProductCount

\* No step takes a pair from at most maxPhaseProductCount live rows to more.
C15StaysWithinQuota ==
  \A pair \in Pairs :
    LiveCount(PhaseProduct, pair) <= maxPhaseProductCount
    => LiveCount(PhaseProduct', pair) <= maxPhaseProductCount

\* C15 (SpecIsolated: no other create for the same pair runs between a
\* request's quota count and its commit).  The number of live rows of a
\* (projectId, phaseId) that is at most maxPhaseProductCount initially
\* stays at most maxPhaseProductCount after any sequence of requests.
C15_QuotaInvariantWhenIsolated ==
  []C15WithinQuota /\ [][C15StaysWithinQuota]_vars

\* Requests filled (1, 100) from below up to the maximum; both of them
\* inserted.
C15_Witness ==
  \E r, q \in Requests :
    /\ r # q
    /\ Ended(r) /\ Ended(q)
    /\ RowsOf(r) # {} /\ RowsOf(q) # {}
    /\ SamePair(r, q)
    /\ LiveCount(InitialRows, << params[r].projectId, params[r].phaseId >>)
         < maxPhaseProductCount
    /\ LiveCount(PhaseProduct, << params[r].projectId, params[r].phaseId >>)
         = maxPhaseProductCount

\* --------------------------------------------------------------------- C16
\* The outcomes a request has produced: 201 responses and calls of next.
Outcomes(r) == Len(response[r]) + Len(nextErr[r])

\* A request never has both a 201 response and an error handed to next, has
\* no outcome before it has ended and exactly one when it has; the error is
\* the one of the step that failed.
C16OneOutcome ==
  \A r \in Requests :
    /\ Outcomes(r) <= 1
    /\ Ended(r) <=> Outcomes(r) = 1
    /\ (err[r] # None /\ err[r].step \in TransactionSteps \cup {"publish", "emit"})
         => response[r] = << >>
    /\ (Ended(r) /\ err[r] # None) => nextErr[r] = << err[r] >>
    /\ (Ended(r) /\ err[r] = None) => Responded201(r)

\* C16 (SpecFair: every store call settles and every due callback runs).
\* Every request that entered the handler eventually ends, with exactly one
\* of the two outcomes 201 response and next(err), never both and never
\* neither.
C16_ExactlyOneOutcome ==
  /\ []C16OneOutcome
  /\ \A r \in Requests : (pc[r] # "idle") ~> Ended(r)

\* One request ended with the 201, another with the error of a failed
\* publish handed to next.
C16_Witness ==
  \E r, q \in Requests :
    /\ Ended(r) /\ Responded201(r) /\ nextErr[r] = << >>
    /\ Ended(q) /\ response[q] = << >> /\ Len(nextErr[q]) = 1
    /\ nextErr[q][1].step = "publish"

====
